---- MODULE Spec2Model ----
(***************************************************************************)
(* Model of the AWX MCP server's two looping operations:                   *)
(*   - awx_stream_job_logs   (src/awx_mcp_server.py), the job-log poller,  *)
(*   - get_inventory_hosts   (src/awx_client.py), the pagination walker,   *)
(*     called from the tool awx_get_inventory_hosts.                       *)
(* Every tool invocation keeps its locals in its own slot of the           *)
(* per-invocation functions below; the AWX server (one job, one inventory) *)
(* is the shared environment.  Text is a sequence of one-character         *)
(* strings, so that str.splitlines and "\n".join are computed.             *)
(***************************************************************************)
EXTENDS Integers, Sequences, FiniteSets, TLC

\* ------------------------------------------------------------------ bounds
MaxLines == 2       \* most lines the job writes
MaxCount == 2       \* the request counter nreq saturates here ("0, 1, many")
MaxPages == 2       \* most pages the server holds for the inventory
MaxPageLen == 1     \* most records on one page

\* ------------------------------------------------------- program constants
page_size == 200        \* get_inventory_hosts: page_size = 200

Invs == {1, 2}          \* slots for tool invocations
NL == "\n"
\* the lines a job can write: an empty line or "a"; NL is the only line
\* boundary that occurs in the modelled text
LineVals == {<<>>, <<"a">>}
None == "None"          \* Python None
NoStatus == "<absent>"  \* the job document has no "status" key

VARIABLES
    invs,           \* the invocations that run in this behaviour
    tool,           \* tool[i]: "none", "stream" or "hosts"
    pc,             \* pc[i]: the statement invocation i is at
    follow,         \* awx_stream_job_logs: argument follow
    status,         \* awx_stream_job_logs: local status
    start_line,     \* awx_stream_job_logs: local start_line (the Log Cursor)
    output_lines,   \* awx_stream_job_logs: local output_lines
    page,           \* get_inventory_hosts: local page (the Page Cursor)
    all_hosts,      \* get_inventory_hosts: local all_hosts
    result,         \* the tool's return value, [kind, value]
    nreq,           \* history: transport requests issued, saturating at MaxCount
    lastReq,        \* history: the most recent transport request
    fetched,        \* history: the job lines the server sent in stdout responses
    termSeen,       \* history: a status fetch of this call reported a terminal status
    reqPages,       \* history: the hosts-page requests issued, in order
    nexts,          \* history: the next indicators of the pages received, in order
    jobStatus,      \* server: the job's status
    jobLines,       \* server: the job's output, a sequence of lines
    srvPages        \* server: the inventory's host pages, each [results, next]

pollVars == <<follow, status, start_line, output_lines, fetched, termSeen>>
walkVars == <<page, all_hosts, reqPages, nexts>>
callVars == <<tool, pc, result, nreq, lastReq>>
srvVars == <<jobStatus, jobLines, srvPages>>
vars == <<invs, callVars, pollVars, walkVars, srvVars>>

\* ------------------------------------------------------------ pure helpers
\* str.splitlines() over the modelled alphabet: break at each NL, no empty
\* last piece after a final NL, [] for the empty string.
RECURSIVE SplitAcc(_, _, _)
SplitAcc(text, cur, acc) ==
    IF text = <<>>
    THEN IF cur = <<>> THEN acc ELSE Append(acc, cur)
    ELSE IF Head(text) = NL
         THEN SplitAcc(Tail(text), <<>>, Append(acc, cur))
         ELSE SplitAcc(Tail(text), Append(cur, Head(text)), acc)

splitlines(text) == SplitAcc(text, <<>>, <<>>)

\* "\n".join(lines)
RECURSIVE join(_)
join(lines) ==
    IF lines = <<>> THEN <<>>
    ELSE IF Len(lines) = 1 THEN Head(lines)
    ELSE Head(lines) \o <<NL>> \o join(Tail(lines))

\* dict.get(key) on a JSON object: None when the key is absent
DictGet(d, key) == IF key \in DOMAIN d THEN d[key] ELSE None

\* Python truthiness of the "next" indicator: None and "" are falsy
Truthy(v) == v # None /\ v # ""

\* --------------------------------------------------------------- requests
Absent == -1            \* a query parameter that is not sent
Req(ep, sl, pg, ps) == [ep |-> ep, start_line |-> sl, page |-> pg, page_size |-> ps]
NoReq == Req("none", Absent, Absent, Absent)

\* get_job: GET jobs/{job_id}/
JobReq == Req("jobs/id/", Absent, Absent, Absent)

\* get_job_stdout: params["start_line"] is sent only when start_line > 0
StartLineParam(sl) == IF sl > 0 THEN sl ELSE Absent
StdoutReq(sl) == Req("jobs/id/stdout/", StartLineParam(sl), Absent, Absent)

\* get_inventory / find_inventory_by_name
InventoryReq(by) ==
    IF by = "id" THEN Req("inventories/id/", Absent, Absent, Absent)
    ELSE Req("inventories/?name", Absent, Absent, Absent)

\* get_inventory_hosts: params = {"page": page, "page_size": page_size}
HostsReq(pg) == Req("inventories/id/hosts/", Absent, pg, page_size)

\* the history counter of requests, saturating
Bump(n) == IF n < MaxCount THEN n + 1 ELSE n

\* ----------------------------------------------------------------- server
TerminalStatuses == {"successful", "failed", "canceled", "error"}
\* "waiting" stands for a status value the tool does not know
AllStatuses == {"pending", "running", "waiting", NoStatus} \cup TerminalStatuses

\* the job document served by GET jobs/{id}/
JobDoc == IF jobStatus = NoStatus THEN [id |-> 42] ELSE [id |-> 42, status |-> jobStatus]

\* the job lines from the requested offset on (offset 0 when none is sent)
ServerLines(req) ==
    LET sl == IF req.start_line = Absent THEN 0 ELSE req.start_line
    IN  SubSeq(jobLines, sl + 1, Len(jobLines))

\* the text of a stdout response: every line followed by a line break
RECURSIVE Render(_)
Render(lines) ==
    IF lines = <<>> THEN <<>> ELSE Head(lines) \o <<NL>> \o Render(Tail(lines))

ServerStdout(req) == Render(ServerLines(req))

\* the job writes one more line while it has not finished
JobAppend(l) ==
    /\ jobStatus \notin TerminalStatuses
    /\ Len(jobLines) < MaxLines
    /\ jobLines' = Append(jobLines, l)
    /\ UNCHANGED <<invs, callVars, pollVars, walkVars, jobStatus, srvPages>>

\* the job's status changes; a terminal status never changes again
JobStatusChange(s) ==
    /\ jobStatus \notin TerminalStatuses
    /\ s # jobStatus
    /\ jobStatus' = s
    /\ UNCHANGED <<invs, callVars, pollVars, walkVars, jobLines, srvPages>>

\* ------------------------------------------------- awx_stream_job_logs
\* status in ["successful", "failed", "canceled", "error"]
IsTerminal_NoError(s) == s \in {"successful", "failed", "canceled"}
IsTerminal_NoCanceled(s) == s \in {"successful", "failed", "error"}
IsTerminal_WithRunning(s) == s \in {"successful", "failed", "canceled", "error", "running"}
IsTerminal(s) == s \in {"successful", "failed", "canceled", "error"}

\* start_line is a local of the call: every invocation reads and writes its own
CursorOf_Shared(i) == 1
CursorOf(i) == i

\* start_line += len(new_lines)
NextStartLine_One(sl, new_lines) == sl + 1
NextStartLine(sl, new_lines) == sl + Len(new_lines)

\* if new_lines: output_lines.extend(new_lines)
Extend(lines, new_lines) == IF new_lines # <<>> THEN lines \o new_lines ELSE lines

\* not follow: logs = get_job_stdout(job_id, format="txt"); return logs
StdoutOnceResult_Rejoined(logs) == [kind |-> "ok", value |-> join(splitlines(logs))]
StdoutOnceResult(logs) == [kind |-> "ok", value |-> logs]

\* full_output = "\n".join(output_lines); return full_output
FollowResult(lines) == [kind |-> "ok", value |-> join(lines)]

\* except AWXClientError / except Exception: the message alone is returned
ErrorText(kind) ==
    IF kind = "AWXError" THEN <<"AWX Error: ">> ELSE <<"Unexpected error: ">>
ExceptResult_Partial(i, kind) == [kind |-> kind, value |-> join(output_lines[i])]
ExceptResult(i, kind) == [kind |-> kind, value |-> ErrorText(kind)]

NoResult == [kind |-> "none", value |-> <<>>]

Invoke_stream(i, f) ==
    /\ i \in invs
    /\ pc[i] = "idle"
    /\ tool' = [tool EXCEPT ![i] = "stream"]
    /\ follow' = [follow EXCEPT ![i] = f]
    /\ output_lines' = [output_lines EXCEPT ![i] = <<>>]
    /\ start_line' = [start_line EXCEPT ![CursorOf(i)] = 0]
    /\ pc' = [pc EXCEPT ![i] = IF f THEN "get_job" ELSE "stdout_once"]
    /\ UNCHANGED <<invs, result, nreq, lastReq, status, fetched, termSeen,
                   walkVars, srvVars>>

\* follow = False: one get_job_stdout at the default start_line = 0
StdoutOnce(i) ==
    /\ i \in invs
    /\ pc[i] = "stdout_once"
    /\ LET req == StdoutReq(0)
           logs == ServerStdout(req)
       IN  /\ nreq' = [nreq EXCEPT ![i] = Bump(@)]
           /\ lastReq' = [lastReq EXCEPT ![i] = req]
           /\ fetched' = [fetched EXCEPT ![i] = @ \o ServerLines(req)]
           /\ result' = [result EXCEPT ![i] = StdoutOnceResult(logs)]
    /\ pc' = [pc EXCEPT ![i] = "done"]
    /\ UNCHANGED <<invs, tool, follow, status, start_line, output_lines, termSeen,
                   walkVars, srvVars>>

\* job = awx_client.get_job(job_id); status = job.get("status")
GetJob(i) ==
    /\ i \in invs
    /\ pc[i] = "get_job"
    /\ LET st == DictGet(JobDoc, "status")
       IN  /\ status' = [status EXCEPT ![i] = st]
           /\ termSeen' = [termSeen EXCEPT ![i] = @ \/ st \in TerminalStatuses]
    /\ nreq' = [nreq EXCEPT ![i] = Bump(@)]
    /\ lastReq' = [lastReq EXCEPT ![i] = JobReq]
    /\ pc' = [pc EXCEPT ![i] = "get_job_stdout"]
    /\ UNCHANGED <<invs, tool, result, follow, start_line, output_lines, fetched,
                   walkVars, srvVars>>

\* the rest of the iteration: fetch from start_line, split, extend, advance,
\* then break and return on a terminal status, or go to sleep
GetJobStdout(i) ==
    /\ i \in invs
    /\ pc[i] = "get_job_stdout"
    /\ LET req == StdoutReq(start_line[CursorOf(i)])
           logs == ServerStdout(req)
           new_lines == splitlines(logs)
           lines == Extend(output_lines[i], new_lines)
       IN  /\ nreq' = [nreq EXCEPT ![i] = Bump(@)]
           /\ lastReq' = [lastReq EXCEPT ![i] = req]
           /\ fetched' = [fetched EXCEPT ![i] = @ \o ServerLines(req)]
           /\ output_lines' = [output_lines EXCEPT ![i] = lines]
           /\ start_line' = [start_line EXCEPT ![CursorOf(i)] =
                                IF new_lines # <<>> THEN NextStartLine(@, new_lines) ELSE @]
           /\ IF IsTerminal(status[i])
              THEN /\ pc' = [pc EXCEPT ![i] = "done"]
                   /\ result' = [result EXCEPT ![i] = FollowResult(lines)]
              ELSE /\ pc' = [pc EXCEPT ![i] = "sleep"]
                   /\ UNCHANGED result
    /\ UNCHANGED <<invs, tool, follow, status, termSeen, walkVars, srvVars>>

\* time.sleep(poll_interval) returns and the loop starts its next iteration
Sleep(i) ==
    /\ i \in invs
    /\ pc[i] = "sleep"
    /\ pc' = [pc EXCEPT ![i] = "get_job"]
    /\ UNCHANGED <<invs, tool, result, nreq, lastReq, pollVars, walkVars, srvVars>>

\* ------------------------------------------- awx_get_inventory_hosts
\* the page the server holds under number pg: data = response.json()
ServerPage(pg) == srvPages[pg]

\* page += 1
NextPage_Skip(pg) == pg + 2
NextPage(pg) == pg + 1

\* if not data.get("next"): break
IsLastPage_KeyOnly(data) == "next" \notin DOMAIN data
IsLastPage(data) == ~Truthy(DictGet(data, "next"))

\* the tool's text: "Total hosts: n" and then one entry per host, in order
FormatHosts(hosts) == [kind |-> "ok", value |-> <<Len(hosts)>> \o hosts]

\* neither inventory_id nor inventory_name / no inventory of that name
Rejected == [kind |-> "rejected", value |-> <<>>]

Invoke_hosts(i, by) ==
    /\ i \in invs
    /\ pc[i] = "idle"
    /\ tool' = [tool EXCEPT ![i] = "hosts"]
    /\ IF by = "neither"
       THEN /\ pc' = [pc EXCEPT ![i] = "done"]
            /\ result' = [result EXCEPT ![i] = Rejected]
       ELSE /\ pc' = [pc EXCEPT ![i] = IF by = "id" THEN "get_inventory" ELSE "find_inventory"]
            /\ UNCHANGED result
    /\ UNCHANGED <<invs, nreq, lastReq, pollVars, walkVars, srvVars>>

\* get_inventory(inventory_id) or find_inventory_by_name(inventory_name);
\* then get_inventory_hosts starts: all_hosts = [], page = 1
Resolve(i, found) ==
    /\ i \in invs
    /\ pc[i] \in {"get_inventory", "find_inventory"}
    /\ pc[i] = "get_inventory" => found
    /\ nreq' = [nreq EXCEPT ![i] = Bump(@)]
    /\ lastReq' = [lastReq EXCEPT ![i] =
                      InventoryReq(IF pc[i] = "get_inventory" THEN "id" ELSE "name")]
    /\ IF found
       THEN /\ pc' = [pc EXCEPT ![i] = "hosts_page"]
            /\ all_hosts' = [all_hosts EXCEPT ![i] = <<>>]
            /\ page' = [page EXCEPT ![i] = 1]
            /\ UNCHANGED result
       ELSE /\ pc' = [pc EXCEPT ![i] = "done"]
            /\ result' = [result EXCEPT ![i] = Rejected]
            /\ UNCHANGED <<all_hosts, page>>
    /\ UNCHANGED <<invs, tool, pollVars, reqPages, nexts, srvVars>>

\* one round of the while loop; after the last page the tool formats and returns
HostsPage(i) ==
    /\ i \in invs
    /\ pc[i] = "hosts_page"
    /\ page[i] \in DOMAIN srvPages
    /\ LET req == HostsReq(page[i])
           data == ServerPage(page[i])
           hosts == all_hosts[i] \o data["results"]
       IN  /\ nreq' = [nreq EXCEPT ![i] = Bump(@)]
           /\ lastReq' = [lastReq EXCEPT ![i] = req]
           /\ reqPages' = [reqPages EXCEPT ![i] = Append(@, req)]
           /\ nexts' = [nexts EXCEPT ![i] = Append(@, DictGet(data, "next"))]
           /\ all_hosts' = [all_hosts EXCEPT ![i] = hosts]
           /\ IF IsLastPage(data)
              THEN /\ pc' = [pc EXCEPT ![i] = "done"]
                   /\ result' = [result EXCEPT ![i] = FormatHosts(hosts)]
                   /\ UNCHANGED page
              ELSE /\ page' = [page EXCEPT ![i] = NextPage(@)]
                   /\ UNCHANGED <<pc, result>>
    /\ UNCHANGED <<invs, tool, pollVars, srvVars>>

\* ------------------------------------------------------ transport failure
RequestPcs == {"stdout_once", "get_job", "get_job_stdout",
               "get_inventory", "find_inventory", "hosts_page"}

\* the request the invocation issues at its current statement
RequestAt(i) ==
    CASE pc[i] = "stdout_once" -> StdoutReq(0)
      [] pc[i] = "get_job" -> JobReq
      [] pc[i] = "get_job_stdout" -> StdoutReq(start_line[CursorOf(i)])
      [] pc[i] = "get_inventory" -> InventoryReq("id")
      [] pc[i] = "find_inventory" -> InventoryReq("name")
      [] pc[i] = "hosts_page" -> HostsReq(page[i])

\* where control goes when a request raises: the tool's except clauses return
AfterFailure_Retry(i) == pc[i]
AfterFailure(i) == "done"

\* _request raises AWXClientError (HTTP error status, no connection, timeout), or
\* the response cannot be used (response.json() or a missing key raises): the
\* tool's except clause returns the message
RequestFails(i, kind) ==
    /\ i \in invs
    /\ pc[i] \in RequestPcs
    /\ nreq' = [nreq EXCEPT ![i] = Bump(@)]
    /\ lastReq' = [lastReq EXCEPT ![i] = RequestAt(i)]
    /\ reqPages' = [reqPages EXCEPT ![i] =
                       IF pc[i] = "hosts_page" THEN Append(@, RequestAt(i)) ELSE @]
    /\ result' = [result EXCEPT ![i] = ExceptResult(i, kind)]
    /\ pc' = [pc EXCEPT ![i] = AfterFailure(i)]
    /\ UNCHANGED <<invs, tool, pollVars, page, all_hosts, nexts, srvVars>>

FailKinds == {"AWXError", "UnexpectedError"}

\* ---------------------------------------------------------- initial states
InitCalls ==
    /\ tool = [i \in Invs |-> "none"]
    /\ pc = [i \in Invs |-> "idle"]
    /\ follow = [i \in Invs |-> FALSE]
    /\ status = [i \in Invs |-> None]
    /\ start_line = [i \in Invs |-> 0]
    /\ output_lines = [i \in Invs |-> <<>>]
    /\ page = [i \in Invs |-> 1]
    /\ all_hosts = [i \in Invs |-> <<>>]
    /\ result = [i \in Invs |-> NoResult]
    /\ nreq = [i \in Invs |-> 0]
    /\ lastReq = [i \in Invs |-> NoReq]
    /\ fetched = [i \in Invs |-> <<>>]
    /\ termSeen = [i \in Invs |-> FALSE]
    /\ reqPages = [i \in Invs |-> <<>>]
    /\ nexts = [i \in Invs |-> <<>>]

InitJob ==
    /\ jobStatus = "pending"
    /\ jobLines = <<>>

\* the hosts 1..n, cut into pages of the given sizes
RECURSIVE SumTo(_, _)
SumTo(sizes, k) == IF k = 0 THEN 0 ELSE sizes[k] + SumTo(sizes, k - 1)
PageResults(sizes, k) == [j \in 1..sizes[k] |-> SumTo(sizes, k - 1) + j]

\* what a page's "next" can be: a URL, null, the empty string, or no key at all
NextVals == {"url", None, "", "<absent>"}
MkPage(results, nx) ==
    IF nx = "<absent>" THEN [results |-> results]
    ELSE [results |-> results, next |-> nx]

\* every inventory of 1..MaxPages pages, each page with any size and any next
Inventories ==
    UNION {{[k \in 1..P |-> MkPage(PageResults(sizes, k), nx[k])] :
               sizes \in [1..P -> 0..MaxPageLen], nx \in [1..P -> NextVals]} :
           P \in 1..MaxPages}

\* an inventory of two pages served the regular way
RegularInventory == <<MkPage(<<1>>, "url"), MkPage(<<2>>, None)>>

\* one invocation of awx_stream_job_logs against one job
Init ==
    /\ invs = {1}
    /\ InitCalls
    /\ InitJob
    /\ srvPages = RegularInventory

\* one invocation of awx_get_inventory_hosts against any inventory
InitWalk ==
    /\ invs = {1}
    /\ InitCalls
    /\ InitJob
    /\ srvPages \in Inventories

\* two invocations at once
InitConc ==
    /\ invs = {1, 2}
    /\ InitCalls
    /\ InitJob
    /\ srvPages = RegularInventory

\* ------------------------------------------------------------ next states
JobNext ==
    \/ \E l \in LineVals : JobAppend(l)
    \/ \E s \in AllStatuses : JobStatusChange(s)

StreamNext(i) ==
    \/ \E f \in BOOLEAN : Invoke_stream(i, f)
    \/ StdoutOnce(i)
    \/ GetJob(i)
    \/ GetJobStdout(i)
    \/ Sleep(i)

HostsNext(i) ==
    \/ \E by \in {"id", "name", "neither"} : Invoke_hosts(i, by)
    \/ \E found \in BOOLEAN : Resolve(i, found)
    \/ HostsPage(i)

Fails(i) == \E kind \in FailKinds : RequestFails(i, kind)

Next ==
    \/ JobNext
    \/ \E i \in Invs : StreamNext(i) \/ Fails(i)

NextWalk == \E i \in Invs : HostsNext(i) \/ Fails(i)

\* in the concurrent specification the job runs and then fails
JobNextConc ==
    \/ \E l \in LineVals : JobAppend(l)
    \/ \E s \in {"running", "failed"} : JobStatusChange(s)

NextConc ==
    \/ JobNextConc
    \/ \E i \in Invs : StreamNext(i) \/ HostsNext(i) \/ Fails(i)

Spec == Init /\ [][Next]_vars
SpecWalk == InitWalk /\ [][NextWalk]_vars
SpecConc == InitConc /\ [][NextConc]_vars

\* the poller is scheduled again and again: a running call is a thread that takes
\* its next step (a request that answers or fails, or the end of a sleep)
SpecLive == Init /\ [][Next]_vars /\ WF_vars(StreamNext(1) \/ Fails(1))

\* ================================================================= claims
Returned(i) == pc[i] = "done"
Ok(i) == result[i].kind = "ok"
Failed(i) == result[i].kind \in FailKinds
FollowCall(i) == tool[i] = "stream" /\ follow[i]
OnceCall(i) == tool[i] = "stream" /\ ~follow[i]
HostsCall(i) == tool[i] = "hosts"
StdoutEp == "jobs/id/stdout/"

\* C1, state part and step part
C1_Inv ==
    \A i \in invs : FollowCall(i) =>
        /\ output_lines[i] = fetched[i]
        /\ start_line[i] = Len(output_lines[i])
        /\ Len(fetched[i]) <= Len(jobLines)
        /\ fetched[i] = SubSeq(jobLines, 1, Len(fetched[i]))
        /\ (Returned(i) /\ Ok(i)) => result[i].value = join(fetched[i])
C1_Step ==
    \A i \in invs :
        (FollowCall(i) /\ pc[i] = "get_job_stdout" /\ pc'[i] # "get_job_stdout") =>
            /\ lastReq'[i].ep = StdoutEp
            /\ lastReq'[i].start_line =
                   IF Len(output_lines[i]) = 0 THEN Absent ELSE Len(output_lines[i])

C2_Inv ==
    \A i \in invs : FollowCall(i) =>
        /\ (Returned(i) /\ Ok(i)) =>
               /\ status[i] \in TerminalStatuses
               /\ lastReq[i].ep = StdoutEp
               /\ result[i].value = join(output_lines[i])
        /\ (termSeen[i] /\ ~Failed(i)) =>
               /\ pc[i] \in {"get_job_stdout", "done"}
               /\ status[i] \in TerminalStatuses
        /\ pc[i] = "sleep" => status[i] \notin TerminalStatuses
C2_Step ==
    \A i \in invs : FollowCall(i) =>
        /\ (pc[i] = "get_job_stdout" /\ status[i] \notin TerminalStatuses
              /\ pc'[i] # pc[i] /\ ~Failed(i)') => pc'[i] = "sleep"
        /\ (pc[i] = "sleep" /\ pc'[i] # pc[i]) => pc'[i] = "get_job"
        /\ (pc[i] = "get_job" /\ pc'[i] # pc[i] /\ ~Failed(i)') => pc'[i] = "get_job_stdout"

\* C2: the follow loop returns in the first iteration whose status fetch reports
\* successful, failed, canceled or error, after that iteration's stdout fetch;
\* on any other status (pending, running, unknown, missing) it sleeps and starts
\* another iteration.
C2_ExitsAtFirstTerminalStatus == []C2_Inv /\ [][C2_Step]_vars
C2_Witness ==
    \E i \in invs : /\ FollowCall(i) /\ Returned(i) /\ Ok(i)
                    /\ status[i] = "canceled" /\ Len(output_lines[i]) = 1

\* C3: if the job's status becomes terminal (and then stays so) and no transport
\* call fails, a follow-mode call that is scheduled fairly eventually returns.
C3_FollowTerminates ==
    (<>[](jobStatus \in TerminalStatuses) /\ [](~Failed(1)))
        => [](FollowCall(1) => <>(Returned(1) /\ Ok(1)))
C3_Witness ==
    /\ FollowCall(1) /\ Returned(1) /\ Ok(1)
    /\ jobStatus = "error" /\ nreq[1] = MaxCount

\* C4, state part and step part
C4_Inv ==
    \A i \in invs : (FollowCall(i) /\ Failed(i)) =>
        /\ Returned(i)
        /\ result[i].value \in {<<"AWX Error: ">>, <<"Unexpected error: ">>}
C4_Step ==
    \A i \in invs : FollowCall(i) =>
        /\ Returned(i) => /\ nreq'[i] = nreq[i] /\ lastReq'[i] = lastReq[i]
                          /\ pc'[i] = pc[i] /\ result'[i] = result[i]
        /\ (~Failed(i) /\ Failed(i)') => /\ pc'[i] = "done"
                                         /\ output_lines'[i] = output_lines[i]

\* C4: when a transport call of a follow-mode call fails, the call returns at
\* once with the error message, which holds none of the accumulated output, and
\* issues no request afterwards.
C4_FollowAbortsOnFailure == []C4_Inv /\ [][C4_Step]_vars
C4_Witness ==
    \E i \in invs : /\ FollowCall(i) /\ Returned(i) /\ result[i].kind = "AWXError"
                    /\ Len(output_lines[i]) = 2

\* C5: a non-follow call never enters the loop or sleeps; when it succeeds it
\* has issued exactly one request, a stdout request with no offset and no status
\* request, and returns that response's text unchanged.
C5_OnceReturnsResponse ==
    \A i \in invs :
      /\ OnceCall(i) => pc[i] \in {"stdout_once", "done"}
      /\ (OnceCall(i) /\ Returned(i) /\ Ok(i)) =>
        /\ nreq[i] = 1
        /\ lastReq[i] = Req(StdoutEp, Absent, Absent, Absent)
        /\ status[i] = None /\ ~termSeen[i]
        /\ result[i].value = Render(fetched[i])
        /\ output_lines[i] = <<>> /\ start_line[i] = 0
C5_Witness ==
    \E i \in invs : /\ OnceCall(i) /\ Returned(i) /\ Ok(i)
                    /\ fetched[i] = << <<>>, <<"a">> >>

RECURSIVE Concat(_, _)
Concat(pages, n) ==
    IF n = 0 THEN <<>> ELSE Concat(pages, n - 1) \o pages[n]["results"]

HasNext(data) == "next" \in DOMAIN data /\ data["next"] = "url"

\* every page but the last carries a next indicator, the last carries none
RegularPaging == \A k \in DOMAIN srvPages : HasNext(srvPages[k]) <=> k < Len(srvPages)

C6_WitnessEmpty ==
    \E i \in invs : /\ HostsCall(i) /\ RegularPaging /\ Returned(i) /\ Ok(i)
                    /\ all_hosts[i] = <<>> /\ Len(reqPages[i]) = 1

\* C7, state part and step part
C7_Inv ==
    \A i \in invs : (HostsCall(i) /\ Failed(i)) =>
        /\ Returned(i)
        /\ result[i].value \in {<<"AWX Error: ">>, <<"Unexpected error: ">>}
C7_Step ==
    \A i \in invs : HostsCall(i) =>
        /\ Returned(i) => /\ reqPages'[i] = reqPages[i] /\ nreq'[i] = nreq[i]
                          /\ pc'[i] = pc[i] /\ result'[i] = result[i]
        /\ (~Failed(i) /\ Failed(i)') => /\ pc'[i] = "done"
                                         /\ all_hosts'[i] = all_hosts[i]
                                         /\ page'[i] = page[i]

\* C7: when the page fetch of a round fails, the tool returns at once with the
\* error message, which holds none of the hosts collected so far, and no page is
\* fetched afterwards.
C7_WalkAbortsOnFailure == []C7_Inv /\ [][C7_Step]_vars
C7_Witness ==
    \E i \in invs : /\ HostsCall(i) /\ Returned(i) /\ result[i].kind = "AWXError"
                    /\ Len(reqPages[i]) = 2 /\ all_hosts[i] # <<>>

\* C9, state part and step part
Falsy(v) == v \in {None, ""}
C9_Inv ==
    \A i \in invs : HostsCall(i) =>
        /\ \A k \in DOMAIN reqPages[i] :
               /\ reqPages[i][k].page = k
               /\ reqPages[i][k].page_size = 200
               /\ reqPages[i][k].ep = "inventories/id/hosts/"
        /\ \A k \in DOMAIN nexts[i] : k < Len(nexts[i]) => ~Falsy(nexts[i][k])
        /\ (Returned(i) /\ Ok(i)) =>
               /\ nexts[i] # <<>> /\ Falsy(nexts[i][Len(nexts[i])])
               /\ Len(reqPages[i]) = Len(nexts[i])
        /\ (nexts[i] # <<>> /\ ~Falsy(nexts[i][Len(nexts[i])]) /\ ~Failed(i)) =>
               /\ pc[i] = "hosts_page"
               /\ page[i] = Len(nexts[i]) + 1
C9_Step ==
    \A i \in invs : (HostsCall(i) /\ pc[i] = "hosts_page") =>
        \/ reqPages'[i] = reqPages[i]
        \/ reqPages'[i] = Append(reqPages[i], Req("inventories/id/hosts/", Absent, page[i], 200))

\* C9: whatever the pages hold, the walk requests pages 1, 2, 3, ... in turn,
\* each with page size 200; it returns in the first round whose response has no
\* next indicator (absent, null or empty) and goes on after every other round.
C9_WalkRequestsPagesInTurn == []C9_Inv /\ [][C9_Step]_vars
C9_Witness ==
    \E i \in invs : /\ HostsCall(i) /\ Returned(i) /\ Ok(i)
                    /\ nexts[i] = <<"url", "">>

\* C10, state part and step part
Locals(i) == <<tool[i], pc[i], follow[i], status[i], start_line[i], output_lines[i],
               page[i], all_hosts[i], result[i], lastReq[i], reqPages[i], nexts[i]>>
C10_Inv ==
    \A i \in invs :
        /\ FollowCall(i) =>
               /\ output_lines[i] = fetched[i]
               /\ start_line[i] = Len(fetched[i])
               /\ (Returned(i) /\ Ok(i)) => result[i].value = join(fetched[i])
        /\ (OnceCall(i) /\ Returned(i) /\ Ok(i)) => result[i].value = Render(fetched[i])
        /\ HostsCall(i) =>
               /\ \A k \in DOMAIN reqPages[i] : reqPages[i][k].page = k
               /\ ~Failed(i) => all_hosts[i] = Concat(srvPages, Len(reqPages[i]))
               /\ (Returned(i) /\ Ok(i)) =>
                      result[i].value = <<Len(srvPages)>> \o Concat(srvPages, Len(srvPages))
C10_Step ==
    /\ Cardinality({i \in invs : Locals(i)' # Locals(i)}) <= 1
    /\ <<jobStatus, jobLines>>' # <<jobStatus, jobLines>> =>
           \A i \in invs : Locals(i)' = Locals(i)
    /\ \A i \in invs : (pc[i] = "get_job_stdout" /\ pc'[i] # pc[i]) =>
           lastReq'[i].start_line = IF Len(fetched[i]) = 0 THEN Absent ELSE Len(fetched[i])

\* C10: invocations running at once share no local: a step changes the locals of
\* at most one invocation (a step of the job changes none), and every
\* invocation's cursor, accumulated output, requests and result are those its
\* own responses determine, as when it runs alone.
C10_InvocationsIndependent == []C10_Inv /\ [][C10_Step]_vars
C10_Witness ==
    /\ FollowCall(1) /\ FollowCall(2) /\ Returned(1) /\ Ok(1) /\ pc[2] = "sleep"
    /\ Len(output_lines[1]) = 2 /\ Len(output_lines[2]) = 1
C10_WitnessMixed ==
    /\ FollowCall(1) /\ HostsCall(2) /\ Returned(1) /\ Ok(1) /\ Returned(2) /\ Ok(2)

====
